---------------------------- MODULE Spec2Model ----------------------------
(***************************************************************************)
(* A model of pull/github.go: GitHubContext, the pull.Context that loads   *)
(* a pull request's files, commits, comments and reviews from GitHub and   *)
(* caches them for the lifetime of the context.                            *)
(*                                                                         *)
(* Modelling conventions                                                   *)
(*  - a nil pointer (a time.Time or githubv4.String pointer) is 0;        *)
(*    a set timestamp is a number in 1..MaxTime; a cursor is the position  *)
(*    of the last node it was issued for;                                  *)
(*  - a Commit keeps the fields the loading protocol reads or writes       *)
(*    (SHA, Parents, PushedAt); a commit list holds each SHA once, as a    *)
(*    commit graph does, so a *Commit is identified by its SHA;            *)
(*  - a commit's parents are a function of its SHA (the SHA is the hash    *)
(*    of the commit, parents included);                                    *)
(*  - durations are in milliseconds.                                       *)
(***************************************************************************)
EXTENDS Integers, Sequences, FiniteSets

(***************************************************************************)
(* Program constants                                                       *)
(***************************************************************************)
MaxPullRequestFiles == 300
MaxPullRequestCommits == 250
commitLoadMaxAttempts == 5
commitLoadBaseDelay == 1000
\* comments(first: 100), reviews(first: 100), commits(first: 100),
\* history(first: 100)
PageSize == 100

NoTime == 0
NoCursor == 0
\* ghc.pr.HeadRefOID
HeadRefOID == 1

(***************************************************************************)
(* Bounds of the model                                                     *)
(***************************************************************************)
\* timestamps are 1..MaxTime
MaxTime == 2
\* the pull request's own commits are 1..NumSHA (1 is the head), listed
\* after FillSizes older commits
NumSHA == 2

Time == 1..MaxTime
OptTime == {NoTime} \cup Time
CoreSHA == 1..NumSHA
\* the SHAs of the older commits of the list: FillBase + 1 is the newest
FillBase == 1000
\* the OIDs of fork-history nodes that are no commit of the pull request
ForeignBase == 5000

Min(a, b) == IF a <= b THEN a ELSE b
Max(a, b) == IF a >= b THEN a ELSE b

RECURSIVE Pow2(_)
Pow2(n) == IF n <= 0 THEN 1 ELSE 2 * Pow2(n - 1)

RECURSIVE SumSeq(_)
SumSeq(s) == IF s = <<>> THEN 0 ELSE Head(s) + SumSeq(Tail(s))

(***************************************************************************)
(* The graph protocol: a cursor-paginated connection.  A query for the     *)
(* nodes after a cursor returns at most PageSize nodes, the cursor of the  *)
(* last node returned (nil for an empty page) and whether nodes remain.    *)
(***************************************************************************)
PageNodes(all, cursor) ==
    SubSeq(all, cursor + 1, Min(cursor + PageSize, Len(all)))

PageInfoOf(all, cursor) ==
    LET nodes == PageNodes(all, cursor)
    IN  [EndCursor |-> IF nodes = <<>> THEN NoCursor ELSE cursor + Len(nodes),
         HasNextPage |-> cursor + Len(nodes) < Len(all)]

\* v4PageInfo.UpdateCursor: the bool it returns
UpdateCursorMore(pi) == pi.HasNextPage /\ pi.EndCursor # NoCursor

\* the variable takes the end cursor of the page even when the page has none
UpdateCursorVarReset(pi, old) == pi.EndCursor

\* v4PageInfo.UpdateCursor: the value of vars[name] after the call
UpdateCursorVar(pi, old) ==
    IF pi.HasNextPage /\ pi.EndCursor # NoCursor THEN pi.EndCursor
    ELSE IF pi.EndCursor # NoCursor THEN pi.EndCursor
    ELSE old

(***************************************************************************)
(* Commits                                                                 *)
(***************************************************************************)
Graphs == {"chain", "cycle"}

\* v4Commit.Parents of the commit with this OID
ParentsOf(g, sha) ==
    IF sha > FillBase THEN <<sha + 1>>
    ELSE IF g = "cycle" /\ sha = NumSHA THEN <<HeadRefOID>>
    ELSE IF sha = NumSHA THEN <<FillBase + 1>>
    ELSE <<sha + 1>>

\* The older commits of the list, oldest first
FillNodes(g, n) ==
    [i \in 1..n |-> [OID |-> FillBase + (n + 1 - i),
                     PushedDate |-> NoTime,
                     Parents |-> ParentsOf(g, FillBase + (n + 1 - i))]]

RECURSIVE CoreNodes(_, _, _, _)
\* The commits of S among k..1, oldest (largest) first
CoreNodes(g, S, date, k) ==
    IF k = 0 THEN <<>>
    ELSE (IF k \in S
          THEN <<[OID |-> k, PushedDate |-> date[k], Parents |-> ParentsOf(g, k)]>>
          ELSE <<>>) \o CoreNodes(g, S, date, k - 1)

\* The pull request's commits connection as the server holds it during one
\* fetch: p = [S, date, fill]
ServerCommits(g, p) == FillNodes(g, p.fill) \o CoreNodes(g, p.S, p.date, NumSHA)

FillSizes == {0, PageSize - 1, MaxPullRequestCommits - 2}

CommitWorlds ==
    [S : SUBSET CoreSHA, date : [CoreSHA -> OptTime], fill : FillSizes]

\* one representative per server content: dates of absent commits are nil.
\* The lists with older commits hold the head, and only the head's date
\* varies in them.
CommitResponses ==
    {p \in CommitWorlds :
        /\ \A s \in CoreSHA \ p.S : p.date[s] = NoTime
        /\ p.fill > 0 =>
            /\ HeadRefOID \in p.S
            /\ \A s \in CoreSHA \ {HeadRefOID} : p.date[s] = NoTime}

\* v4Commit.ToCommit
ToCommit(r) == [SHA |-> r.OID, Parents |-> r.Parents, PushedAt |-> r.PushedDate]

ToCommits(rawCommits) == [i \in DOMAIN rawCommits |-> ToCommit(rawCommits[i])]

SHAsOf(commits) == {commits[i].SHA : i \in DOMAIN commits}

ShaSeq(commits) == [i \in DOMAIN commits |-> commits[i].SHA]

\* commitsBySHA[sha]: the last commit of the list with this SHA
IndexOf(commits, sha) ==
    LET I == {i \in DOMAIN commits : commits[i].SHA = sha}
    IN  IF I = {} THEN 0 ELSE CHOOSE i \in I : \A j \in I : j <= i

Lookup(commits, sha) == commits[IndexOf(commits, sha)]

\* c.PushedAt = t through the pointer commitsBySHA[sha]
SetPushedAt(commits, sha, t) ==
    [commits EXCEPT ![IndexOf(commits, sha)].PushedAt = t]

\* loadCommits: head, the commit whose SHA is the head SHA (0: head == nil)
HeadIndex(commits) == IndexOf(commits, HeadRefOID)

HeadPushedAt(commits) ==
    IF HeadIndex(commits) = 0 THEN NoTime ELSE commits[HeadIndex(commits)].PushedAt


(***************************************************************************)
(* The fork's history connection, object(oid: head).history, as the server *)
(* holds it during one backfill: h = [drop, hd, od, mid, tail].  The head  *)
(* comes first, then mid commits that are not of the pull request, then    *)
(* the pull request's other commits from the newest to the oldest, then    *)
(* tail further commits.  drop is a commit of the pull request the fork    *)
(* history does not hold (0: none); hd and od are the pushed dates of the  *)
(* head and of the other core commits.                                     *)
(***************************************************************************)
ForeignNodes(from, n) ==
    [i \in 1..n |-> [OID |-> ForeignBase + from + i, PushedDate |-> 1]]

RECURSIVE CoreHistory(_, _, _)
\* the nodes of the commits of S among k..NumSHA, newest (smallest) first
CoreHistory(S, od, k) ==
    IF k > NumSHA THEN <<>>
    ELSE (IF k \in S THEN <<[OID |-> k, PushedDate |-> od]>> ELSE <<>>)
            \o CoreHistory(S, od, k + 1)

ServerHistory(p, h) ==
    (IF HeadRefOID \in p.S \ {h.drop}
     THEN <<[OID |-> HeadRefOID, PushedDate |-> h.hd]>> ELSE <<>>)
    \o ForeignNodes(0, h.mid)
    \o CoreHistory(p.S \ {h.drop, HeadRefOID}, h.od, 1)
    \o [i \in 1..p.fill |-> [OID |-> FillBase + i, PushedDate |-> 1]]
    \o ForeignNodes(h.mid, h.tail)

\* The histories of the lists with older commits hold every commit of the
\* list, and only the head's date varies in them.
HistoryResponses(p) ==
    IF p.fill > 0
    THEN [drop : {0}, hd : OptTime, od : {1}, mid : {0}, tail : {0}]
    ELSE [drop : {0} \cup p.S, hd : OptTime, od : OptTime,
          mid : {0, PageSize - 1}, tail : {0, PageSize}]

NoHistory == [drop |-> 0, hd |-> NoTime, od |-> NoTime, mid |-> 0, tail |-> 0]

\* loadPushedAt, lines 434-439: the commits after one page of history nodes
\* (a node matches the pending commit of its OID; the first such node of the
\* page counts, since the match deletes the key)
MatchCommits(commits, pendingSHAs, nodes) ==
    LET oids == {nodes[j].OID : j \in DOMAIN nodes}
        hit == oids \cap pendingSHAs
        first == [o \in hit |->
                    CHOOSE j \in DOMAIN nodes :
                        /\ nodes[j].OID = o
                        /\ \A k \in 1..(j - 1) : nodes[k].OID # o]
    IN  [i \in DOMAIN commits |->
            IF commits[i].SHA \in hit
            THEN [commits[i] EXCEPT !.PushedAt = nodes[first[commits[i].SHA]].PushedDate]
            ELSE commits[i]]

\* loadPushedAt, lines 434-439: commitsBySHA's keys after one page
MatchPending(pendingSHAs, nodes) ==
    pendingSHAs \ {nodes[j].OID : j \in DOMAIN nodes}

\* loadPushedAt, lines 403-406: the keys of commitsBySHA
PendingOf(commits) == SHAsOf(commits)

\* the loop goes on while the server reports more pages
HistoryContinuesWhileMore(pendingSHAs, pi) == UpdateCursorMore(pi)

\* loadPushedAt, lines 430 and 440: the loop goes on to another query
HistoryContinues(pendingSHAs, pi) ==
    UpdateCursorMore(pi) /\ pendingSHAs # {}

\* the commits left unmatched are not reported
BackfillIncompleteIgnored(pendingSHAs) == FALSE

\* loadPushedAt, lines 445-447
BackfillIncomplete(pendingSHAs) == Cardinality(pendingSHAs) > 0

(***************************************************************************)
(* backfillPushedAt: parent-chain inference.  bySHA holds the keys of      *)
(* commitsBySHA, root is the current commit.                               *)
(***************************************************************************)
\* the loop looks the commits up in the list, not in the map it deletes from
BackfillStopsInList(commits, bySHA, root) ==
    IF root \notin SHAsOf(commits) THEN TRUE
    ELSE IF Len(Lookup(commits, root).Parents) = 0 THEN TRUE
    ELSE Lookup(commits, root).Parents[1] \notin SHAsOf(commits)

\* the loop also breaks at a first parent that already has a timestamp
BackfillStopsAtDated(commits, bySHA, root) ==
    IF root \notin bySHA THEN TRUE
    ELSE IF Len(Lookup(commits, root).Parents) = 0 THEN TRUE
    ELSE IF Lookup(commits, root).Parents[1] \notin bySHA THEN TRUE
    ELSE Lookup(commits, Lookup(commits, root).Parents[1]).PushedAt # NoTime

\* backfillPushedAt, lines 459-467: the loop breaks
BackfillStops(commits, bySHA, root) ==
    IF root \notin bySHA THEN TRUE
    ELSE IF Len(Lookup(commits, root).Parents) = 0 THEN TRUE
    ELSE Lookup(commits, root).Parents[1] \notin bySHA

\* backfillPushedAt, line 464: firstParent.SHA
FirstParentOf(commits, root) == Lookup(commits, root).Parents[1]

\* the first parent takes the current commit's timestamp in every case
BackfillAssignAlways(commits, root) ==
    SetPushedAt(commits, Lookup(commits, root).Parents[1],
                Lookup(commits, root).PushedAt)

\* backfillPushedAt, lines 469-471: the commits after the assignment
BackfillAssign(commits, root) ==
    LET c == Lookup(commits, root)
        firstParent == Lookup(commits, c.Parents[1])
    IN  IF firstParent.PushedAt = NoTime
        THEN SetPushedAt(commits, firstParent.SHA, c.PushedAt)
        ELSE commits

RECURSIVE BackfillLoop(_, _, _)
BackfillLoop(commits, bySHA, root) ==
    IF BackfillStops(commits, bySHA, root) THEN commits
    ELSE BackfillLoop(BackfillAssign(commits, root), bySHA \ {root},
                      FirstParentOf(commits, root))

backfillPushedAt(commits, headSHA) ==
    BackfillLoop(commits, SHAsOf(commits), headSHA)

(***************************************************************************)
(* The inputs of backfillPushedAt taken alone: n commits n..1 (1 is the    *)
(* head), first[s] the first parent of commit s (0: no parent; n + 1: a    *)
(* commit that is not in the list), second the second parent of the head  *)
(* (0: none), date[s] its PushedAt.                                        *)
(***************************************************************************)
\* the commits of a list with any parent relation
NumChain == 3
\* the longest linear chain head -> 2 -> ... -> MaxLinear
MaxLinear == 4

ChainTimes == {NoTime, 1, MaxTime}

ChainParents(inp, s) ==
    IF inp.first[s] = 0 THEN <<>>
    ELSE IF s = HeadRefOID /\ inp.second # 0 THEN <<inp.first[s], inp.second>>
    ELSE <<inp.first[s]>>

ChainCommits(inp) ==
    [i \in 1..inp.n |->
        [SHA |-> inp.n + 1 - i,
         Parents |-> ChainParents(inp, inp.n + 1 - i),
         PushedAt |-> inp.date[inp.n + 1 - i]]]

GenericInputs ==
    [n : {NumChain}, first : [1..NumChain -> 0..(NumChain + 1)],
     second : {0, NumChain}, date : [1..NumChain -> ChainTimes]]

LinearInputs ==
    UNION {[n : {k}, first : {[s \in 1..k |-> IF s = k THEN 0 ELSE s + 1]},
            second : {0}, date : [1..k -> ChainTimes]] : k \in 1..MaxLinear}

ChainInputs == GenericInputs \cup LinearInputs

NoInput == [n |-> 0, first |-> <<>>, second |-> 0, date |-> <<>>]

(***************************************************************************)
(* Slices: nil is distinct from an empty slice                             *)
(***************************************************************************)
NilSlice == [isNil |-> TRUE, items |-> <<>>]

\* a slice without items is nil
SliceNilWhenEmpty(s) == [isNil |-> s = <<>>, items |-> s]

\* a slice that was allocated, with or without items
Slice(s) == [isNil |-> FALSE, items |-> s]

(***************************************************************************)
(* loadCommits and Commits: what follows a fetch                           *)
(***************************************************************************)
\* loadCommits, line 350
NeedsForkBackfill(isCross, commits) ==
    isCross /\ HeadPushedAt(commits) = NoTime

\* the loop returns once the head is found, whatever its timestamp
HeadResolvedWhenPresent(commits) == HeadIndex(commits) # 0

\* loadCommits, line 356
HeadResolved(commits) == HeadPushedAt(commits) # NoTime

\* one attempt more than commitLoadMaxAttempts before giving up
RetriesExhaustedLate(a) == a > commitLoadMaxAttempts

\* loadCommits, line 361
RetriesExhausted(a) == a >= commitLoadMaxAttempts

\* a delay that grows by the base delay instead of doubling
BackoffDelayLinear(a) == a * commitLoadBaseDelay

\* loadCommits, line 365
BackoffDelay(a) == Pow2(a - 1) * commitLoadBaseDelay

\* Commits, line 234
TooManyCommits(commits) == Len(commits) >= MaxPullRequestCommits

Outcome(pc, res, list, cache, at, sl) ==
    [cpc |-> pc, result |-> res, returned |-> list, cache |-> cache,
     attempts |-> at, sleeps |-> sl]

\* a list that has reached the commit ceiling is fetched again after a sleep
AfterBackfillRetriesTooMany(commits, cache, at, sl) ==
    IF HeadResolved(commits) /\ ~TooManyCommits(commits)
    THEN LET filled == backfillPushedAt(commits, HeadRefOID)
         IN  Outcome("returned", "ok", filled, Slice(filled), at, sl)
    ELSE IF RetriesExhausted(at + 1)
         THEN Outcome("returned",
                      IF HeadResolved(commits) THEN "size-exceeded"
                      ELSE "missing-timestamp", <<>>, cache, at + 1, sl)
         ELSE Outcome("sleep", "none", <<>>, cache, at + 1,
                      Append(sl, BackoffDelay(at + 1)))

\* loadCommits, lines 356-367, and Commits, lines 231-241, from a list whose
\* head is present and whose backfill, if any, is over
AfterBackfill(commits, cache, at, sl) ==
    IF HeadResolved(commits)
    THEN IF TooManyCommits(commits)
         THEN Outcome("returned", "size-exceeded", <<>>, cache, at, sl)
         ELSE LET filled == backfillPushedAt(commits, HeadRefOID)
              IN  Outcome("returned", "ok", filled, Slice(filled), at, sl)
    ELSE IF RetriesExhausted(at + 1)
         THEN Outcome("returned", "missing-timestamp", <<>>, cache, at + 1, sl)
         ELSE Outcome("sleep", "none", <<>>, cache, at + 1,
                      Append(sl, BackoffDelay(at + 1)))

\* a list without the head is fetched again after a sleep
AfterFetchRetriesMissingHead(isCross, commits, cache, at, sl) ==
    IF HeadIndex(commits) = 0
    THEN IF RetriesExhausted(at + 1)
         THEN Outcome("returned", "missing-head", <<>>, cache, at + 1, sl)
         ELSE Outcome("sleep", "none", <<>>, cache, at + 1,
                      Append(sl, BackoffDelay(at + 1)))
    ELSE IF NeedsForkBackfill(isCross, commits)
         THEN Outcome("history", "none", <<>>, cache, at, sl)
         ELSE AfterBackfill(commits, cache, at, sl)

\* loadCommits, lines 332-354, from the list a fetch returned
AfterFetch(isCross, commits, cache, at, sl) ==
    IF HeadIndex(commits) = 0
    THEN Outcome("returned", "missing-head", <<>>, cache, at, sl)
    ELSE IF NeedsForkBackfill(isCross, commits)
         THEN Outcome("history", "none", <<>>, cache, at, sl)
         ELSE AfterBackfill(commits, cache, at, sl)

\* ghc.owner and ghc.repo: the base repository
BaseOwner == "base-owner"
BaseRepo == "repo"

\* a pull request from a branch of the base repository
SameRepoPR ==
    [IsCrossRepository |-> FALSE,
     HeadRepository |-> [Owner |-> BaseOwner, Name |-> BaseRepo]]

\* a pull request from a fork, which keeps the repository's name
ForkPR ==
    [IsCrossRepository |-> TRUE,
     HeadRepository |-> [Owner |-> "fork-owner", Name |-> BaseRepo]]

PullRequests == {SameRepoPR, ForkPR}

\* no history query was prepared
NoQvars == [owner |-> "", name |-> "", oid |-> 0]

\* the history is asked of the base repository
HistoryQvarsOfBase(p) ==
    [owner |-> BaseOwner, name |-> BaseRepo, oid |-> HeadRefOID]

\* loadPushedAt, lines 423-428: qvars without its cursor
HistoryQvars(p) ==
    [owner |-> p.HeadRepository.Owner, name |-> p.HeadRepository.Name,
     oid |-> HeadRefOID]

(***************************************************************************)
(* The state of one GitHubContext and of the call in progress              *)
(***************************************************************************)
VARIABLES
    pr,           \* ghc.pr: [IsCrossRepository, HeadRepository]
    cancelled,    \* ghc.ctx is done
    graph,        \* the parents of the pull request's commits
    commitsCache, \* ghc.commits
    cpc,          \* Commits(): idle, raw, history, sleep, returned
    result,       \* the error Commits() returned (ok: nil; none: no return yet)
    returned,     \* the list Commits() returned
    attempts,     \* loadCommits: attempts
    sleeps,       \* the delays of the time.Sleep calls of the call, in order
    nFetch,       \* the loadRawCommits calls of the call that returned a list
    nQuery,       \* the commits queries of the call's current attempt
    nHist,        \* the history queries of the call's current attempt
    cursor,       \* loadRawCommits: qvars["cursor"]
    raw,          \* loadRawCommits: commits
    commits,      \* loadCommits: commits, of the latest fetch
    hcursor,      \* loadPushedAt: qvars["cursor"]
    hqvars,       \* loadPushedAt: qvars["owner"], ["name"] and ["oid"]
    pending,      \* loadPushedAt: the keys of commitsBySHA
    srvCommits,   \* the server's commits connection during this fetch
    srvHistory,   \* the server's fork history during this backfill
    filesCache,   \* ghc.files
    fpc,          \* ChangedFiles(): off, idle, paging, returned
    fresult,      \* the error ChangedFiles() returned
    freturned,    \* the list ChangedFiles() returned
    fpage,        \* ChangedFiles: opt.Page
    allFiles,     \* ChangedFiles: allFiles
    nFileReq,     \* the ListFiles requests of the call
    srvFiles,     \* the number of files of the pull request
    commentsCache, \* ghc.comments
    reviewsCache, \* ghc.reviews
    ppc,          \* Comments() or Reviews(): off, idle, loop, returned
    pwho,         \* the accessor called: Comments or Reviews
    presult,      \* the error it returned
    preturned,    \* the list it returned
    commentCursor, \* loadPagedData: qvars["commentCursor"]
    reviewCursor, \* loadPagedData: qvars["reviewCursor"]
    pcomments,    \* loadPagedData: comments
    previews,     \* loadPagedData: reviews
    nPaged,       \* the combined queries of the call
    srvPaged,     \* the numbers of comments and reviews of the pull request
    bfInput,      \* backfillPushedAt alone: its input
    bfCommits,    \* backfillPushedAt: commits
    bfBySHA,      \* backfillPushedAt: the keys of commitsBySHA
    bfRoot,       \* backfillPushedAt: root
    bfVisited,    \* the values root took in the iterations that ran through
    bfPc,         \* backfillPushedAt: off, idle, loop, done
    loc,          \* NewGitHubContext: the locator
    npc,          \* NewGitHubContext: off, idle, query, built, failed, panicked
    nNewQuery,    \* the graph queries toV4 has issued
    built         \* the context NewGitHubContext returned

commitVars ==
    <<pr, graph, cancelled, commitsCache, cpc, result, returned, attempts, sleeps, nFetch,
      nQuery, nHist, cursor, raw, commits, hcursor, hqvars, pending,
      srvCommits,
      srvHistory>>

fileVars ==
    <<filesCache, fpc, fresult, freturned, fpage, allFiles, nFileReq, srvFiles>>

pagedVars ==
    <<commentsCache, reviewsCache, ppc, pwho, presult, preturned, commentCursor,
      reviewCursor, pcomments, previews, nPaged, srvPaged>>

chainVars == <<bfInput, bfCommits, bfBySHA, bfRoot, bfVisited, bfPc>>

newVars == <<loc, npc, nNewQuery, built>>

vars == <<commitVars, fileVars, pagedVars, chainVars, newVars>>

NoCommits == [S |-> {}, date |-> [s \in CoreSHA |-> NoTime], fill |-> 0]

\* NewGitHubContext, lines 141-152: no commits are cached
CommitsBlank ==
    /\ cancelled = FALSE
    /\ commitsCache = NilSlice
    /\ result = "none"
    /\ returned = <<>>
    /\ attempts = 0
    /\ sleeps = <<>>
    /\ nFetch = 0
    /\ nQuery = 0
    /\ nHist = 0
    /\ cursor = NoCursor
    /\ raw = <<>>
    /\ commits = <<>>
    /\ hcursor = NoCursor
    /\ hqvars = NoQvars
    /\ pending = {}
    /\ srvCommits = NoCommits
    /\ srvHistory = NoHistory

\* a context whose caller calls Commits()
CommitsIdle ==
    /\ pr \in PullRequests
    /\ graph \in Graphs
    /\ cpc = "idle"
    /\ CommitsBlank

\* a context whose caller does not call Commits()
CommitsOff ==
    /\ pr = SameRepoPR
    /\ graph = "chain"
    /\ cpc = "off"
    /\ CommitsBlank

\* loadRawCommits, lines 382-389: a fetch begins
BeginFetch ==
    /\ srvCommits' = NoCommits
    /\ cursor' = NoCursor
    /\ raw' = <<>>
    /\ nQuery' = 0
    /\ nHist' = 0

\* the locals of one iteration of loadCommits' loop when the fetch is over;
\* they stay in scope during the sleep that ends the iteration
LocalsAfter(o, cs, rawCommits, c, sc) ==
    /\ commits' = cs /\ raw' = rawCommits /\ cursor' = c
    /\ srvCommits' = sc

\* the variables an outcome o decides
Apply(o) ==
    /\ cpc' = o.cpc
    /\ result' = o.result
    /\ returned' = o.returned
    /\ commitsCache' = o.cache
    /\ attempts' = o.attempts
    /\ sleeps' = o.sleeps

\* loadPushedAt, lines 403-428: the backfill begins if the outcome is one
BeginHistory(o, cs) ==
    IF o.cpc = "history"
    THEN /\ pending' = PendingOf(cs)
         /\ hcursor' = NoCursor
         /\ hqvars' = HistoryQvars(pr)
         /\ srvHistory' = NoHistory
    ELSE /\ pending' = {}
         /\ hcursor' = NoCursor
         /\ hqvars' = NoQvars
         /\ srvHistory' = NoHistory

\* Commits(), lines 228-242, up to the first query
CallCommits ==
    /\ cpc \in {"idle", "returned"}
    /\ nFetch' = 0
    /\ IF ~commitsCache.isNil
       THEN /\ Apply(Outcome("returned", "ok", commitsCache.items, commitsCache,
                             0, <<>>))
            /\ cursor' = NoCursor /\ raw' = <<>> /\ srvCommits' = NoCommits
            /\ nQuery' = 0 /\ nHist' = 0
       ELSE /\ Apply(Outcome("raw", "none", <<>>, commitsCache, 0, <<>>))
            /\ BeginFetch
    /\ commits' = <<>> /\ hcursor' = NoCursor /\ pending' = {}
    /\ hqvars' = NoQvars
    /\ srvHistory' = NoHistory
    /\ UNCHANGED <<pr, graph, cancelled>>
    /\ UNCHANGED <<fileVars, pagedVars, chainVars, newVars>>

\* the error of a Query call that fails: the context's when it is done
QueryError == IF cancelled THEN "cancelled" ELSE "transport"

\* loadRawCommits, lines 391-393: the query fails
CommitsQueryFails ==
    /\ cpc = "raw"
    /\ nQuery' = nQuery + 1
    /\ Apply(Outcome("returned", QueryError, <<>>, commitsCache, attempts, sleeps))
    /\ UNCHANGED <<pr, graph, cancelled, nFetch, nHist, cursor, raw, commits, hcursor,
                   hqvars,
                   pending, srvCommits, srvHistory>>
    /\ UNCHANGED <<fileVars, pagedVars, chainVars, newVars>>

\* loadRawCommits, lines 391-398: one page of commits; after the last page
\* loadCommits, lines 332-367, and Commits, lines 231-241.  The server's
\* connection holds any of the lists when the fetch's first query reaches it,
\* and that list during the fetch.
CommitsPage ==
    /\ cpc = "raw"
    /\ ~cancelled
    /\ nQuery' = nQuery + 1
    /\ \E sc \in IF nQuery = 0 THEN CommitResponses ELSE {srvCommits} :
       LET all == ServerCommits(graph, sc)
           pi == PageInfoOf(all, cursor)
           got == raw \o PageNodes(all, cursor)
       IN  IF UpdateCursorMore(pi)
           THEN /\ raw' = got
                /\ cursor' = UpdateCursorVar(pi, cursor)
                /\ srvCommits' = sc
                /\ UNCHANGED <<cpc, result, returned, commitsCache, attempts,
                               sleeps, nFetch, commits, pending, hcursor,
                               hqvars,
                               srvHistory>>
           ELSE LET cs == ToCommits(got)
                    o == AfterFetch(pr.IsCrossRepository, cs, commitsCache,
                                    attempts, sleeps)
                IN  /\ nFetch' = nFetch + 1
                    /\ Apply(o)
                    /\ LocalsAfter(o, cs, got, UpdateCursorVar(pi, cursor), sc)
                    /\ BeginHistory(o, cs)
    /\ UNCHANGED <<pr, graph, cancelled, nHist>>
    /\ UNCHANGED <<fileVars, pagedVars, chainVars, newVars>>

\* loadPushedAt, lines 431-433: the query fails
HistoryQueryFails ==
    /\ cpc = "history"
    /\ nHist' = nHist + 1
    /\ Apply(Outcome("returned", QueryError, <<>>, commitsCache, attempts, sleeps))
    /\ UNCHANGED <<pr, graph, cancelled, nFetch, nQuery, cursor, raw, commits, hcursor,
                   hqvars,
                   pending, srvCommits, srvHistory>>
    /\ UNCHANGED <<fileVars, pagedVars, chainVars, newVars>>

\* loadPushedAt, lines 431-448: one page of the fork's history; after the
\* loop loadCommits, lines 351-367, and Commits, lines 231-241.  The fork's
\* history is any of the histories when the backfill's first query reaches
\* the server, and that history during the backfill.
HistoryPage ==
    /\ cpc = "history"
    /\ ~cancelled
    /\ nHist' = nHist + 1
    /\ \E sh \in IF nHist = 0 THEN HistoryResponses(srvCommits) ELSE {srvHistory} :
       LET all == ServerHistory(srvCommits, sh)
           pi == PageInfoOf(all, hcursor)
           nodes == PageNodes(all, hcursor)
           cs == MatchCommits(commits, pending, nodes)
           left == MatchPending(pending, nodes)
           o == IF BackfillIncomplete(left)
                THEN Outcome("returned", "backfill-incomplete", <<>>,
                             commitsCache, attempts, sleeps)
                ELSE AfterBackfill(cs, commitsCache, attempts, sleeps)
       IN  IF HistoryContinues(left, pi)
           THEN /\ commits' = cs
                /\ pending' = left
                /\ hcursor' = UpdateCursorVar(pi, hcursor)
                /\ UNCHANGED hqvars
                /\ srvHistory' = sh
                /\ UNCHANGED <<cpc, result, returned, commitsCache, attempts,
                               sleeps, cursor, raw, srvCommits>>
           ELSE /\ Apply(o)
                /\ LocalsAfter(o, cs, raw, cursor, srvCommits)
                /\ pending' = left
                /\ hcursor' = UpdateCursorVar(pi, hcursor)
                /\ UNCHANGED hqvars
                /\ srvHistory' = sh
    /\ UNCHANGED <<pr, graph, cancelled, nFetch, nQuery>>
    /\ UNCHANGED <<fileVars, pagedVars, chainVars, newVars>>

\* loadCommits, lines 367 and 326-327: time.Sleep returns and the next fetch
\* begins
SleepDone ==
    /\ cpc = "sleep"
    /\ cpc' = "raw"
    /\ BeginFetch
    /\ commits' = <<>> /\ hcursor' = NoCursor /\ pending' = {}
    /\ hqvars' = NoQvars
    /\ srvHistory' = NoHistory
    /\ UNCHANGED <<pr, graph, cancelled, commitsCache, result, returned, attempts, sleeps,
                   nFetch>>
    /\ UNCHANGED <<fileVars, pagedVars, chainVars, newVars>>

\* the caller's context is cancelled while Commits() runs
Cancel ==
    /\ cpc \in {"raw", "history", "sleep"}
    /\ ~cancelled
    /\ cancelled' = TRUE
    /\ UNCHANGED <<pr, graph, commitsCache, cpc, result, returned, attempts,
                   sleeps, nFetch, nQuery, nHist, cursor, raw, commits, hcursor,
                   hqvars,
                   pending, srvCommits, srvHistory>>
    /\ UNCHANGED <<fileVars, pagedVars, chainVars, newVars>>

NextCommits ==
    \/ CallCommits
    \/ CommitsQueryFails
    \/ CommitsPage
    \/ HistoryQueryFails
    \/ HistoryPage
    \/ SleepDone


(***************************************************************************)
(* ChangedFiles: the list protocol.  The server holds files 1..srvFiles     *)
(* and serves FilesPerPage of them per page; page 0 is the first page.     *)
(***************************************************************************)
\* the server's page size (opt.PerPage is 0: the server's default)
FilesPerPage == 30

RawStatus(i) ==
    CASE i % 4 = 1 -> "added"
      [] i % 4 = 2 -> "deleted"
      [] i % 4 = 3 -> "modified"
      [] OTHER -> "renamed"

RawFile(i) == [Filename |-> i, Status |-> RawStatus(i)]

\* ChangedFiles, lines 204-219
ToFile(f) ==
    [Filename |-> f.Filename,
     Status |-> CASE f.Status = "added" -> "FileAdded"
                  [] f.Status = "deleted" -> "FileDeleted"
                  [] f.Status = "modified" -> "FileModified"
                  [] OTHER -> "FileUnknown"]

ServerFiles(n) == [i \in 1..n |-> RawFile(i)]

FilePageNo(page) == IF page = 0 THEN 1 ELSE page

ListFiles(n, page) ==
    SubSeq(ServerFiles(n), (FilePageNo(page) - 1) * FilesPerPage + 1,
           Min(FilePageNo(page) * FilesPerPage, n))

\* res.NextPage
NextPageOf(n, page) ==
    IF FilePageNo(page) * FilesPerPage < n THEN FilePageNo(page) + 1 ELSE 0

FileCounts ==
    {0, 1, FilesPerPage - 1, FilesPerPage, FilesPerPage + 1, 2 * FilesPerPage,
     2 * FilesPerPage + 1,
     MaxPullRequestFiles - 1, MaxPullRequestFiles, MaxPullRequestFiles + 1}

\* ChangedFiles, lines 203-220: ghc.files after the appends to a nil slice
FilesAppended(all) ==
    IF Len(all) = 0 THEN NilSlice ELSE Slice([i \in DOMAIN all |-> ToFile(all[i])])

\* the ceiling itself is still accepted
TooManyFilesAbove(cache) == Len(cache.items) > MaxPullRequestFiles

\* ChangedFiles, line 222
TooManyFiles(cache) == Len(cache.items) >= MaxPullRequestFiles

\* ChangedFiles, lines 222-225: the error and the list returned
FilesResult(cache) ==
    IF TooManyFiles(cache) THEN [result |-> "size-exceeded", returned |-> NilSlice]
    ELSE [result |-> "ok", returned |-> cache]

FilesBlank ==
    /\ filesCache = NilSlice
    /\ fresult = "none"
    /\ freturned = NilSlice
    /\ fpage = 0
    /\ allFiles = <<>>
    /\ nFileReq = 0

FilesIdle == fpc = "idle" /\ srvFiles \in FileCounts /\ FilesBlank

FilesOff == fpc = "off" /\ srvFiles = 0 /\ FilesBlank

\* ChangedFiles, lines 187-190 and, with the cache set, 222-225
CallChangedFiles ==
    /\ fpc \in {"idle", "returned"}
    /\ nFileReq' = 0
    /\ fpage' = 0
    /\ allFiles' = <<>>
    /\ IF filesCache.isNil
       THEN /\ fpc' = "paging"
            /\ fresult' = "none"
            /\ freturned' = NilSlice
       ELSE /\ fpc' = "returned"
            /\ fresult' = FilesResult(filesCache).result
            /\ freturned' = FilesResult(filesCache).returned
    /\ UNCHANGED <<filesCache, srvFiles>>
    /\ UNCHANGED <<commitVars, pagedVars, chainVars, newVars>>

\* ChangedFiles, lines 192-195: the request fails
FilesRequestFails ==
    /\ fpc = "paging"
    /\ nFileReq' = nFileReq + 1
    /\ fpc' = "returned"
    /\ fresult' = "transport"
    /\ freturned' = NilSlice
    /\ UNCHANGED <<filesCache, srvFiles, fpage, allFiles>>
    /\ UNCHANGED <<commitVars, pagedVars, chainVars, newVars>>

\* ChangedFiles, lines 192-200: one page of files; after the last page
\* lines 203-225
FilesPage ==
    /\ fpc = "paging"
    /\ nFileReq' = nFileReq + 1
    /\ LET got == allFiles \o ListFiles(srvFiles, fpage)
           cache == FilesAppended(got)
       IN  /\ allFiles' = got
           /\ IF NextPageOf(srvFiles, fpage) = 0
              THEN /\ filesCache' = cache
                   /\ fpc' = "returned"
                   /\ fresult' = FilesResult(cache).result
                   /\ freturned' = FilesResult(cache).returned
                   /\ UNCHANGED fpage
              ELSE /\ fpage' = NextPageOf(srvFiles, fpage)
                   /\ UNCHANGED <<filesCache, fpc, fresult, freturned>>
    /\ UNCHANGED srvFiles
    /\ UNCHANGED <<commitVars, pagedVars, chainVars, newVars>>

NextFiles ==
    \/ CallChangedFiles
    \/ FilesRequestFails
    \/ FilesPage

(***************************************************************************)
(* Comments and Reviews: loadPagedData.  The server holds comments         *)
(* 1..srvPaged.C and reviews 1..srvPaged.R (those of the states the query  *)
(* asks for).                                                              *)
(***************************************************************************)
\* the lists hold up to MaxPages * PageSize + 1 items
MaxPages == 2

PagedSizes ==
    {n \in 0..(MaxPages * PageSize + 1) : n % PageSize \in {0, 1, PageSize - 1}}

RawActor(i) ==
    [Type |-> IF i % 3 = 0 THEN "Bot" ELSE "User", Login |-> i % 5]

\* v4Actor.GetV3Login: the login, and the suffix appended to it
GetV3Login(a) ==
    IF a.Type = "Bot" THEN <<a.Login, "[bot]">> ELSE <<a.Login>>

RawComment(i) == [Author |-> RawActor(i), Body |-> i, CreatedAt |-> i]

RawReview(i) ==
    [Author |-> RawActor(i + 1),
     State |-> IF i % 2 = 0 THEN "APPROVED" ELSE "CHANGES_REQUESTED",
     Body |-> i, SubmittedAt |-> i]

\* v4IssueComment.ToComment
ToComment(c) ==
    [CreatedAt |-> c.CreatedAt, Author |-> GetV3Login(c.Author), Body |-> c.Body]

\* strings.ToLower on the review states
ToLower(st) ==
    CASE st = "APPROVED" -> "approved"
      [] st = "CHANGES_REQUESTED" -> "changes_requested"
      [] OTHER -> st

\* v4PullRequestReview.ToReview
ToReview(r) ==
    [CreatedAt |-> r.SubmittedAt, Author |-> GetV3Login(r.Author),
     State |-> ToLower(r.State), Body |-> r.Body]

ServerComments(n) == [i \in 1..n |-> RawComment(i)]
ServerReviews(n) == [i \in 1..n |-> RawReview(i)]

MapComments(nodes) == [i \in DOMAIN nodes |-> ToComment(nodes[i])]
MapReviews(nodes) == [i \in DOMAIN nodes |-> ToReview(nodes[i])]

\* one finished list is enough for the loop to end
PagedCompleteEither(cpi, rpi) ==
    IF ~UpdateCursorMore(cpi) \/ ~UpdateCursorMore(rpi) THEN 2 ELSE 0

\* loadPagedData, lines 299-310: complete after the two UpdateCursor calls
PagedComplete(cpi, rpi) ==
    (IF ~UpdateCursorMore(cpi) THEN 1 ELSE 0)
        + (IF ~UpdateCursorMore(rpi) THEN 1 ELSE 0)

PagedBlank ==
    /\ commentsCache = NilSlice
    /\ reviewsCache = NilSlice
    /\ pwho = "none"
    /\ presult = "none"
    /\ preturned = NilSlice
    /\ commentCursor = NoCursor
    /\ reviewCursor = NoCursor
    /\ pcomments = <<>>
    /\ previews = <<>>
    /\ nPaged = 0

PagedIdle ==
    /\ ppc = "idle"
    /\ srvPaged \in [C : PagedSizes, R : PagedSizes]
    /\ PagedBlank

PagedOff == ppc = "off" /\ srvPaged = [C |-> 0, R |-> 0] /\ PagedBlank

\* Comments, lines 244-251, or Reviews, lines 253-260, up to the first query
\* of loadPagedData, lines 279-289
CallPaged(who, cache) ==
    /\ ppc \in {"idle", "returned"}
    /\ pwho' = who
    /\ nPaged' = 0
    /\ commentCursor' = NoCursor
    /\ reviewCursor' = NoCursor
    /\ pcomments' = <<>>
    /\ previews' = <<>>
    /\ IF cache.isNil
       THEN /\ ppc' = "loop"
            /\ presult' = "none"
            /\ preturned' = NilSlice
       ELSE /\ ppc' = "returned"
            /\ presult' = "ok"
            /\ preturned' = cache
    /\ UNCHANGED <<commentsCache, reviewsCache, srvPaged>>
    /\ UNCHANGED <<commitVars, fileVars, chainVars, newVars>>

CallComments == CallPaged("Comments", commentsCache)

CallReviews == CallPaged("Reviews", reviewsCache)

\* loadPagedData, lines 292-294: the query fails
PagedQueryFails ==
    /\ ppc = "loop"
    /\ nPaged' = nPaged + 1
    /\ ppc' = "returned"
    /\ presult' = "transport"
    /\ preturned' = NilSlice
    /\ UNCHANGED <<commentsCache, reviewsCache, srvPaged, pwho, commentCursor,
                   reviewCursor, pcomments, previews>>
    /\ UNCHANGED <<commitVars, fileVars, chainVars, newVars>>

\* loadPagedData, lines 292-317: one combined query; after the last one the
\* return of Comments, line 250, or Reviews, line 259
PagedQuery ==
    /\ ppc = "loop"
    /\ nPaged' = nPaged + 1
    /\ LET call == ServerComments(srvPaged.C)
           rall == ServerReviews(srvPaged.R)
           cpi == PageInfoOf(call, commentCursor)
           rpi == PageInfoOf(rall, reviewCursor)
           cs == pcomments \o MapComments(PageNodes(call, commentCursor))
           rs == previews \o MapReviews(PageNodes(rall, reviewCursor))
       IN  /\ pcomments' = cs
           /\ previews' = rs
           /\ commentCursor' = UpdateCursorVar(cpi, commentCursor)
           /\ reviewCursor' = UpdateCursorVar(rpi, reviewCursor)
           /\ IF PagedComplete(cpi, rpi) = 2
              THEN /\ commentsCache' = Slice(cs)
                   /\ reviewsCache' = Slice(rs)
                   /\ ppc' = "returned"
                   /\ presult' = "ok"
                   /\ preturned' = IF pwho = "Comments" THEN Slice(cs) ELSE Slice(rs)
              ELSE UNCHANGED <<commentsCache, reviewsCache, ppc, presult, preturned>>
    /\ UNCHANGED <<srvPaged, pwho>>
    /\ UNCHANGED <<commitVars, fileVars, chainVars, newVars>>

NextPaged ==
    \/ CallComments
    \/ CallReviews
    \/ PagedQueryFails
    \/ PagedQuery

(***************************************************************************)
(* backfillPushedAt taken alone, one iteration of its loop per step        *)
(***************************************************************************)
ChainBlank ==
    /\ bfCommits = <<>>
    /\ bfBySHA = {}
    /\ bfRoot = 0
    /\ bfVisited = <<>>

ChainIdle == bfPc = "idle" /\ bfInput \in ChainInputs /\ ChainBlank

ChainOff == bfPc = "off" /\ bfInput = NoInput /\ ChainBlank

\* backfillPushedAt, lines 451-457
BackfillCall ==
    /\ bfPc = "idle"
    /\ bfPc' = "loop"
    /\ bfCommits' = ChainCommits(bfInput)
    /\ bfBySHA' = SHAsOf(ChainCommits(bfInput))
    /\ bfRoot' = HeadRefOID
    /\ UNCHANGED <<bfInput, bfVisited>>
    /\ UNCHANGED <<commitVars, fileVars, pagedVars, newVars>>

\* backfillPushedAt, lines 459-474: an iteration that runs through
BackfillStep ==
    /\ bfPc = "loop"
    /\ ~BackfillStops(bfCommits, bfBySHA, bfRoot)
    /\ bfCommits' = BackfillAssign(bfCommits, bfRoot)
    /\ bfBySHA' = bfBySHA \ {bfRoot}
    /\ bfRoot' = FirstParentOf(bfCommits, bfRoot)
    /\ bfVisited' = Append(bfVisited, bfRoot)
    /\ UNCHANGED <<bfInput, bfPc>>
    /\ UNCHANGED <<commitVars, fileVars, pagedVars, newVars>>

\* backfillPushedAt, lines 459-467: the loop breaks and the function returns
BackfillReturn ==
    /\ bfPc = "loop"
    /\ BackfillStops(bfCommits, bfBySHA, bfRoot)
    /\ bfPc' = "done"
    /\ UNCHANGED <<bfInput, bfCommits, bfBySHA, bfRoot, bfVisited>>
    /\ UNCHANGED <<commitVars, fileVars, pagedVars, newVars>>

NextChain ==
    \/ BackfillCall
    \/ BackfillStep
    \/ BackfillReturn

(***************************************************************************)
(* NewGitHubContext: the construction of a context from a locator.  An    *)
(* empty string is "" and an id that is not set is 0, which is also what   *)
(* the getters of github.PullRequest return below a nil pointer.           *)
(***************************************************************************)
\* the fields of loc.Value that IsComplete and toV4 read: strings and ids
StringFields ==
    {"UserLogin", "BaseRef", "HeadSHA", "HeadRef", "HeadRepoName",
     "HeadRepoOwnerLogin"}

IDFields == {"BaseRepoID", "HeadRepoID"}

EmptyValue ==
    [UserLogin |-> "", BaseRef |-> "", BaseRepoID |-> 0, HeadSHA |-> "",
     HeadRef |-> "", HeadRepoID |-> 0, HeadRepoName |-> "",
     HeadRepoOwnerLogin |-> ""]

\* the pull requests a locator carries: each field is set or not, and the head
\* repository is the base repository or another one
Values ==
    [UserLogin : {"", "author"}, BaseRef : {"", "main"}, BaseRepoID : {0, 1},
     HeadSHA : {"", "sha"}, HeadRef : {"", "topic"}, HeadRepoID : {0, 1, 2},
     HeadRepoName : {"", BaseRepo}, HeadRepoOwnerLogin : {"", "fork-owner"}]

\* Locator: Value is nil when hasValue is false
Locators ==
    [Owner : {"", BaseOwner}, Repo : {BaseRepo}, Number : {1},
     hasValue : {TRUE}, Value : Values]
    \cup [Owner : {"", BaseOwner}, Repo : {BaseRepo}, Number : {1},
          hasValue : {FALSE}, Value : {EmptyValue}]

NoLocator ==
    [Owner |-> "", Repo |-> "", Number |-> 0, hasValue |-> FALSE,
     Value |-> EmptyValue]

\* the head repository's owner is not among the required fields
IsCompleteWithoutOwner(l) ==
    IF ~l.hasValue THEN FALSE
    ELSE IF l.Value.UserLogin = "" THEN FALSE
    ELSE IF l.Value.BaseRef = "" THEN FALSE
    ELSE IF l.Value.BaseRepoID = 0 THEN FALSE
    ELSE IF l.Value.HeadSHA = "" THEN FALSE
    ELSE IF l.Value.HeadRef = "" THEN FALSE
    ELSE IF l.Value.HeadRepoID = 0 THEN FALSE
    ELSE IF l.Value.HeadRepoName = "" THEN FALSE
    ELSE TRUE

\* Locator.IsComplete, lines 57-72
IsComplete(l) ==
    IF ~l.hasValue THEN FALSE
    ELSE IF l.Value.UserLogin = "" THEN FALSE
    ELSE IF l.Value.BaseRef = "" THEN FALSE
    ELSE IF l.Value.BaseRepoID = 0 THEN FALSE
    ELSE IF l.Value.HeadSHA = "" THEN FALSE
    ELSE IF l.Value.HeadRef = "" THEN FALSE
    ELSE IF l.Value.HeadRepoID = 0 THEN FALSE
    ELSE IF l.Value.HeadRepoName = "" THEN FALSE
    ELSE IF l.Value.HeadRepoOwnerLogin = "" THEN FALSE
    ELSE TRUE

\* Locator.toV4, lines 93-101: the v4PullRequest of a complete locator
toV4(l) ==
    [Author |-> l.Value.UserLogin,
     IsCrossRepository |-> l.Value.HeadRepoID # l.Value.BaseRepoID,
     HeadRefOID |-> l.Value.HeadSHA,
     HeadRefName |-> l.Value.HeadRef,
     HeadRepository |-> [Name |-> l.Value.HeadRepoName,
                         Owner |-> l.Value.HeadRepoOwnerLogin],
     BaseRefName |-> l.Value.BaseRef]

\* Locator.toV4, lines 77-91: the pull requests the query can return
QueriedPullRequests ==
    {[Author |-> "author", IsCrossRepository |-> x.IsCrossRepository,
      HeadRefOID |-> "sha", HeadRefName |-> "topic",
      HeadRepository |-> x.HeadRepository, BaseRefName |-> "main"] :
        x \in PullRequests}

NoPullRequest ==
    [Author |-> "", IsCrossRepository |-> FALSE, HeadRefOID |-> "",
     HeadRefName |-> "", HeadRepository |-> [Name |-> "", Owner |-> ""],
     BaseRefName |-> ""]

\* no context was returned
NoContext ==
    [isNil |-> TRUE, owner |-> "", repo |-> "", number |-> 0,
     pr |-> NoPullRequest]

\* NewGitHubContext, lines 141-152
Context(l, p) ==
    [isNil |-> FALSE, owner |-> l.Owner, repo |-> l.Repo, number |-> l.Number,
     pr |-> p]

NewIdle ==
    /\ npc = "idle"
    /\ loc \in Locators
    /\ nNewQuery = 0
    /\ built = NoContext

NewOff ==
    /\ npc = "off"
    /\ loc = NoLocator
    /\ nNewQuery = 0
    /\ built = NoContext

\* NewGitHubContext, lines 131-153, up to the query of toV4, line 87
NewGitHubContext ==
    /\ npc = "idle"
    /\ IF loc.Owner = "" \/ loc.Repo = "" \/ loc.Number = 0
       THEN npc' = "panicked" /\ UNCHANGED built
       ELSE IF IsComplete(loc)
            THEN npc' = "built" /\ built' = Context(loc, toV4(loc))
            ELSE npc' = "query" /\ UNCHANGED built
    /\ UNCHANGED <<loc, nNewQuery>>
    /\ UNCHANGED <<commitVars, fileVars, pagedVars, chainVars>>

\* toV4, lines 87-89, and NewGitHubContext, lines 137-139: the query fails
NewQueryFails ==
    /\ npc = "query"
    /\ nNewQuery' = nNewQuery + 1
    /\ npc' = "failed"
    /\ UNCHANGED <<loc, built>>
    /\ UNCHANGED <<commitVars, fileVars, pagedVars, chainVars>>

\* toV4, lines 87-90, and NewGitHubContext, lines 141-152
NewQueryReturns ==
    /\ npc = "query"
    /\ nNewQuery' = nNewQuery + 1
    /\ npc' = "built"
    /\ \E p \in QueriedPullRequests : built' = Context(loc, p)
    /\ UNCHANGED loc
    /\ UNCHANGED <<commitVars, fileVars, pagedVars, chainVars>>

NextNew ==
    \/ NewGitHubContext
    \/ NewQueryFails
    \/ NewQueryReturns

(***************************************************************************)
(* Specifications: a context on which the caller calls one accessor, any   *)
(* number of times, one call after the other                               *)
(***************************************************************************)
InitCommits ==
    CommitsIdle /\ FilesOff /\ PagedOff /\ ChainOff /\ NewOff

InitFiles ==
    CommitsOff /\ FilesIdle /\ PagedOff /\ ChainOff /\ NewOff

InitPaged ==
    CommitsOff /\ FilesOff /\ PagedIdle /\ ChainOff /\ NewOff

InitChain ==
    CommitsOff /\ FilesOff /\ PagedOff /\ ChainIdle /\ NewOff

SpecCommits == InitCommits /\ [][NextCommits]_vars

SpecFiles == InitFiles /\ [][NextFiles]_vars

SpecPaged == InitPaged /\ [][NextPaged]_vars

SpecChain == InitChain /\ [][NextChain]_vars

\* backfillPushedAt runs on: it is straight-line code in one goroutine
SpecChainFair == SpecChain /\ WF_vars(NextChain)

InitNew == CommitsOff /\ FilesOff /\ PagedOff /\ ChainOff /\ NewIdle

SpecNew == InitNew /\ [][NextNew]_vars

\* a context on which the caller calls ChangedFiles() or Commits()
SpecLimits ==
    (InitFiles \/ InitCommits) /\ [][NextFiles \/ NextCommits]_vars

\* a context on which the caller calls Commits() and may cancel ghc.ctx
SpecCancel == InitCommits /\ [][NextCommits \/ Cancel]_vars

\* a context on which the caller calls one of the four accessors
SpecCaches ==
    (InitFiles \/ InitCommits \/ InitPaged)
        /\ [][NextFiles \/ NextCommits \/ NextPaged]_vars

(***************************************************************************)
(* Properties of Commits(): retries                                        *)
(***************************************************************************)
\* the last attempt of the call in progress ran to its end (no query of it
\* failed, no commit was left unmatched by the backfill) with the head in
\* the list
AttemptEnded ==
    /\ cpc = "returned"
    /\ nFetch >= 1
    /\ result \notin {"transport", "backfill-incomplete"}
    /\ HeadIndex(commits) # 0

\* the SHAs of the list the latest fetch returned, in the server's order
FetchedSHAs == [i \in DOMAIN raw |-> raw[i].OID]

\* C1: a call whose every attempt ends with the head present and its pushed
\* timestamp unset makes exactly 5 fetches, sleeps 1s, 2s, 4s and 8s between
\* them (15s in all, none after the 5th) and fails with missing-timestamp;
\* no call makes a 6th fetch.
C1_FiveAttemptsThenMissingTimestamp ==
    /\ nFetch <= 5
    /\ cpc = "sleep" => nFetch < 5 /\ Len(sleeps) = nFetch
    /\ AttemptEnded /\ HeadPushedAt(commits) = NoTime => result = "missing-timestamp"
    /\ result = "missing-timestamp" =>
        /\ cpc = "returned"
        /\ nFetch = 5
        /\ sleeps = <<1000, 2000, 4000, 8000>>
        /\ SumSeq(sleeps) = 15000
        /\ returned = <<>>

\* C1, reached: the fifth attempt of a cross-repository pull request, whose
\* backfill ran and left the head's timestamp unset, fails
C1_Witness ==
    /\ result = "missing-timestamp"
    /\ pr.IsCrossRepository
    /\ nHist >= 1
    /\ nFetch = 5

\* C2: a call whose attempt k (1..5) is the first to end with the head's
\* timestamp set returns after exactly k fetches, having slept 2^(i-1) s
\* after attempt i < k and not after attempt k; it succeeds (unless the list
\* has reached the commit ceiling) and returns the commits of fetch k, in
\* the order fetched.
C2_SucceedsOnFirstResolvedAttempt ==
    /\ AttemptEnded /\ HeadPushedAt(commits) # NoTime =>
        /\ result \in {"ok", "size-exceeded"}
        /\ Len(commits) < 250 => result = "ok"
        /\ nFetch \in 1..5
        /\ sleeps = SubSeq(<<1000, 2000, 4000, 8000>>, 1, nFetch - 1)
    /\ cpc = "returned" /\ result = "ok" /\ nFetch >= 1 =>
        /\ AttemptEnded /\ HeadPushedAt(commits) # NoTime
        /\ ShaSeq(returned) = FetchedSHAs

\* C2, reached: success on the fifth attempt, after sleeps of 1, 2, 4, 8 s
C2_Witness ==
    /\ cpc = "returned"
    /\ result = "ok"
    /\ nFetch = 5
    /\ sleeps = <<1000, 2000, 4000, 8000>>

\* C3: every list Commits() returns without error, from a load or from the
\* cache, holds a commit with the head SHA whose PushedAt is set.
C3_ReturnedHeadHasPushedAt ==
    cpc = "returned" /\ result = "ok" =>
        \E i \in DOMAIN returned :
            returned[i].SHA = HeadRefOID /\ returned[i].PushedAt # NoTime

\* C3, reached: a cached call on a cross-repository pull request
C3_Witness ==
    /\ cpc = "returned"
    /\ result = "ok"
    /\ nFetch = 0
    /\ pr.IsCrossRepository
    /\ Len(returned) > 1

(***************************************************************************)
(* Properties of Commits(): the cross-repository backfill                  *)
(***************************************************************************)
\* the backfill of the latest fetch has begun
InBackfill == cpc = "history" \/ (cpc = "returned" /\ nHist >= 1)

\* C5: the backfill leaves alone the commits whose PushedAt the fetch had
\* set: each keeps the fetched value and none is in the pending set.
C5_BackfillOnlyTouchesMissing ==
    InBackfill =>
        \A i \in DOMAIN commits :
            raw[i].PushedDate # NoTime =>
                /\ commits[i].PushedAt = raw[i].PushedDate
                /\ commits[i].SHA \notin pending

\* C6: when the history's pages are exhausted with a commit left unmatched,
\* Commits() fails with backfill-incomplete, at once: no sleep follows the
\* attempt, nothing is returned and the cache stays nil.
C6_BackfillIncompleteIsFatal ==
    /\ cpc = "returned" /\ nHist >= 1 /\ pending # {} /\ result # "transport" =>
        result = "backfill-incomplete"
    /\ result = "backfill-incomplete" =>
        /\ cpc = "returned"
        /\ pending # {}
        /\ hcursor = Len(ServerHistory(srvCommits, srvHistory))
        /\ nFetch \in 1..5
        /\ Len(sleeps) = nFetch - 1
        /\ returned = <<>>
        /\ commitsCache.isNil

\* C6, reached: on a retry, a history of two pages ends with the head matched
\* and another commit never returned
C6_Witness ==
    /\ result = "backfill-incomplete"
    /\ nFetch >= 2
    /\ nHist = 2
    /\ HeadRefOID \notin pending

\* C7: a history query is issued only with a commit pending; once none is,
\* the backfill is over without error, whatever the last page reported.
C7_HistoryQueriedOnlyWhilePending ==
    /\ [](cpc = "history" => pending # {})
    /\ [][nHist' = nHist + 1 => pending # {}]_vars
    /\ [][cpc = "history" /\ pending' = {} =>
            /\ cpc' # "history"
            /\ result' \in {"none", "ok", "size-exceeded", "missing-timestamp"}]_vars

\* C7, reached: the second history page matches the last pending commit and
\* reports a further page, which is not requested
C7_Witness ==
    /\ cpc = "returned"
    /\ result = "ok"
    /\ nHist = 2
    /\ pending = {}
    /\ hcursor < Len(ServerHistory(srvCommits, srvHistory))


(***************************************************************************)
(* Properties of backfillPushedAt                                          *)
(***************************************************************************)
\* the commits of the list that the head reaches by following first parents,
\* as long as the first parent is in the list
RECURSIVE ChainFrom(_, _, _)
ChainFrom(cs, sha, seen) ==
    IF sha \notin SHAsOf(cs) \/ sha \in seen THEN seen
    ELSE IF Len(Lookup(cs, sha).Parents) = 0 THEN seen \cup {sha}
    ELSE ChainFrom(cs, Lookup(cs, sha).Parents[1], seen \cup {sha})

\* the input is a linear chain on which the head alone has a timestamp
OnlyHeadDated ==
    /\ bfInput \in LinearInputs
    /\ bfInput.date[HeadRefOID] # NoTime
    /\ \A s \in 2..bfInput.n : bfInput.date[s] = NoTime

\* C4: once backfillPushedAt has returned on a list whose head has a
\* timestamp, every commit the head reaches through first parents in the list
\* has one, and on a linear chain where the head alone had one every commit
\* has the head's
C4_FirstParentChainGetsTimestamps ==
    bfPc = "done" /\ bfInput.date[HeadRefOID] # NoTime =>
        /\ \A s \in ChainFrom(ChainCommits(bfInput), HeadRefOID, {}) :
               Lookup(bfCommits, s).PushedAt # NoTime
        /\ OnlyHeadDated =>
               \A s \in 1..bfInput.n :
                   Lookup(bfCommits, s).PushedAt = bfInput.date[HeadRefOID]

\* C4, reached: the inference has walked the longest linear chain, which had a
\* timestamp on its head alone
C4_Witness ==
    /\ bfPc = "done"
    /\ OnlyHeadDated
    /\ bfInput.n = MaxLinear
    /\ Len(bfVisited) = MaxLinear - 1
    /\ Lookup(bfCommits, MaxLinear).PushedAt = bfInput.date[HeadRefOID]

(***************************************************************************)
(* Properties of loadPagedData                                             *)
(***************************************************************************)
\* the pages of PageSize that n items take
PagesFor(n) == (n + PageSize - 1) \div PageSize

\* a call of Comments() or Reviews() that ran loadPagedData has returned
\* without error
PagedLoaded == ppc = "returned" /\ presult = "ok" /\ nPaged > 0

\* C8 as stated: a joint load of C comments and R reviews ends after exactly
\* max(ceil(C/100), ceil(R/100)) combined queries
C8_QueriesAreMaxOfPages ==
    PagedLoaded =>
        nPaged = Max(PagesFor(srvPaged.C), PagesFor(srvPaged.R))

\* C8: a joint load of C comments and R reviews ends after exactly
\* max(1, ceil(C/100), ceil(R/100)) combined queries: while it runs it has
\* issued fewer, and when it returns it has issued that many
C8_QueriesAreMaxOfPagesAtLeastOne ==
    LET n == Max(1, Max(PagesFor(srvPaged.C), PagesFor(srvPaged.R)))
    IN  /\ ppc = "loop" => nPaged < n
        /\ PagedLoaded => nPaged = n

\* C8, reached: a pull request without comments and reviews is loaded with
\* one query
C8_Witness ==
    /\ PagedLoaded
    /\ srvPaged = [C |-> 0, R |-> 0]
    /\ nPaged = 1
    /\ commentsCache = Slice(<<>>)
    /\ reviewsCache = Slice(<<>>)

\* C9: after a joint load the cached comments are the server's comments and
\* the cached reviews the server's reviews, each item once and in the
\* server's order
C9_CachesEqualServerSequences ==
    ppc = "returned" /\ presult = "ok" =>
        /\ ~commentsCache.isNil
        /\ ~reviewsCache.isNil
        /\ Len(commentsCache.items) = srvPaged.C
        /\ Len(reviewsCache.items) = srvPaged.R
        /\ \A i \in 1..srvPaged.C :
               commentsCache.items[i] = ToComment(RawComment(i))
        /\ \A i \in 1..srvPaged.R :
               reviewsCache.items[i] = ToReview(RawReview(i))
        /\ preturned = IF pwho = "Comments" THEN commentsCache ELSE reviewsCache

\* C9, reached: the comments fit one page and were queried again, with the
\* cursor left at their end, on every further page of the reviews
C9_Witness ==
    /\ PagedLoaded
    /\ srvPaged.C = PageSize - 1
    /\ srvPaged.R = MaxPages * PageSize + 1
    /\ nPaged = MaxPages + 1
    /\ commentCursor = PageSize - 1
    /\ Len(commentsCache.items) = PageSize - 1

(***************************************************************************)
(* Properties of the size ceilings of ChangedFiles() and Commits()         *)
(***************************************************************************)
\* ChangedFiles() has returned and no request failed
FilesReturned == fpc = "returned" /\ fresult # "transport"

\* Commits() has returned from a load that obtained a list whose head has a
\* timestamp
HeadResolvedReturn == AttemptEnded /\ HeadPushedAt(commits) # NoTime

\* C10: ChangedFiles() fails with size-exceeded exactly when the pull request
\* has 300 files or more, Commits() with a resolved head exactly when the
\* list has 250 commits or more, and a list either call returns without error
\* is the whole list
C10_CeilingsAreExactAndNothingTruncated ==
    /\ FilesReturned =>
        /\ Len(filesCache.items) = srvFiles
        /\ fresult = "size-exceeded" <=> srvFiles >= 300
        /\ fresult = "ok" <=> srvFiles <= 299
        /\ fresult = "ok" =>
            /\ Len(freturned.items) = srvFiles
            /\ \A i \in 1..srvFiles : freturned.items[i] = ToFile(RawFile(i))
    /\ fresult = "size-exceeded" => FilesReturned /\ freturned = NilSlice
    /\ HeadResolvedReturn =>
        /\ Len(commits) = Len(ServerCommits(graph, srvCommits))
        /\ result = "size-exceeded" <=> Len(commits) >= 250
        /\ result = "ok" <=> Len(commits) <= 249
        /\ result = "ok" =>
            ShaSeq(returned) = ShaSeq(ToCommits(ServerCommits(graph, srvCommits)))
    /\ result = "size-exceeded" => HeadResolvedReturn /\ returned = <<>>
    /\ cpc = "returned" /\ result = "ok" => returned = commitsCache.items

\* C10, reached: a list of exactly 250 commits whose head got its timestamp
\* from the fork's history is refused
C10_Witness ==
    /\ cpc = "returned"
    /\ result = "size-exceeded"
    /\ Len(commits) = MaxPullRequestCommits
    /\ pr.IsCrossRepository
    /\ nHist >= 1
    /\ commitsCache.isNil

(***************************************************************************)
(* Properties of the caches                                                *)
(***************************************************************************)
\* C11: the call that follows a successful ChangedFiles() returns at once,
\* with the same list and without a file-list request
C11_LaterCallsServedFromCache ==
    [][fpc = "returned" /\ fresult = "ok" =>
          /\ fpc' = "returned"
          /\ fresult' = "ok"
          /\ freturned' = freturned
          /\ nFileReq' = 0]_vars

\* the four caches of the instance
Caches == <<filesCache, commitsCache, commentsCache, reviewsCache>>

\* C12: a cache that is set is never written again, and the step in which an
\* accessor returns an error leaves the four caches as they were
C12_CachesWrittenOnceAndOnlyOnSuccess ==
    [][/\ ~filesCache.isNil => filesCache' = filesCache
       /\ ~commitsCache.isNil => commitsCache' = commitsCache
       /\ ~commentsCache.isNil => commentsCache' = commentsCache
       /\ ~reviewsCache.isNil => reviewsCache' = reviewsCache
       /\ ( \/ fpc' = "returned" /\ fresult' # "ok"
            \/ cpc' = "returned" /\ result' # "ok"
            \/ ppc' = "returned" /\ presult' # "ok" ) => Caches' = Caches]_vars

(***************************************************************************)
(* Properties of Commits(): which failures are retried                     *)
(***************************************************************************)
\* the step completes a commit fetch
FetchCompletes == nFetch' = nFetch + 1

\* C13: a fetch that completes without a commit of the head SHA makes
\* Commits() return missing-head in that step, with no sleep added and no
\* history query; the call that failed so has made no history query or fetch
\* after that one and cached nothing
C13_MissingHeadFailsAtOnce ==
    /\ [][FetchCompletes /\ HeadIndex(ToCommits(raw')) = 0 =>
             /\ cpc' = "returned"
             /\ result' = "missing-head"
             /\ sleeps' = sleeps
             /\ nHist' = 0
             /\ commitsCache' = commitsCache]_vars
    /\ [](result = "missing-head" =>
             /\ cpc = "returned"
             /\ HeadIndex(ToCommits(raw)) = 0
             /\ nHist = 0
             /\ Len(sleeps) = nFetch - 1
             /\ returned = <<>>
             /\ commitsCache.isNil)

\* C13, reached: the third fetch of a call returns commits without the head
C13_Witness ==
    /\ cpc = "returned"
    /\ result = "missing-head"
    /\ nFetch = 3
    /\ Len(sleeps) = 2
    /\ raw # <<>>

\* C14: Commits() sleeps, and fetches again within a call, only after an
\* attempt that ended with the head present and its timestamp unset; a query
\* that fails, on a page of commits or of the fork's history, makes the call
\* return the transport error in that step, with no sleep and no query after
\* it
C14_OnlyMissingTimestampIsRetried ==
    /\ [](cpc = "sleep" =>
             /\ HeadIndex(commits) # 0
             /\ HeadPushedAt(commits) = NoTime
             /\ result = "none")
    /\ [][Len(sleeps') > Len(sleeps) => cpc' = "sleep"]_vars
    /\ [][cpc # "raw" /\ cpc' = "raw" =>
             \/ cpc = "sleep" /\ nFetch' = nFetch /\ sleeps' = sleeps
             \/ cpc \in {"idle", "returned"} /\ nFetch' = 0 /\ sleeps' = <<>>]_vars
    /\ [][result' = "transport" /\ cpc # "returned" =>
             /\ cpc \in {"raw", "history"}
             /\ cpc' = "returned"
             /\ nQuery' + nHist' = nQuery + nHist + 1
             /\ sleeps' = sleeps
             /\ nFetch' = nFetch
             /\ returned' = <<>>
             /\ commitsCache' = commitsCache]_vars
    /\ [][cpc = "returned" => nQuery' = 0 /\ nHist' = 0 /\ sleeps' = <<>>]_vars

\* C14, reached: the second page of the fork's history fails in the second
\* attempt of a call
C14_Witness ==
    /\ cpc = "returned"
    /\ result = "transport"
    /\ nFetch = 2
    /\ nHist = 2
    /\ sleeps = <<1000>>

(***************************************************************************)
(* Properties of Commits(): cancellation                                   *)
(***************************************************************************)
\* C15: once the context is cancelled while Commits() runs, the next step of
\* the call is its return with the cancellation error: no query completes
\* and no sleep is begun or run to its end
C15_CancellationFailsAtOnce ==
    [][cancelled /\ cpc \in {"raw", "history", "sleep"} =>
          /\ cpc' = "returned"
          /\ result' = "cancelled"
          /\ nFetch' = nFetch
          /\ sleeps' = sleeps]_vars

(***************************************************************************)
(* Properties of Commits(): when and where the fork's history is queried   *)
(***************************************************************************)
\* C16: the attempt whose fetch completes goes on to query the fork's history
\* exactly when the pull request is cross-repository and the fetched head has
\* no timestamp; a pull request of the base repository never has a history
\* query; and every history query is made with the owner and name of the head
\* repository and the head SHA, which are not the base repository's
C16_HistoryQueriedOfForkWhenHeadUndated ==
    /\ [][FetchCompletes /\ HeadIndex(ToCommits(raw')) # 0 =>
             (cpc' = "history" <=>
                 /\ pr.IsCrossRepository
                 /\ HeadPushedAt(ToCommits(raw')) = NoTime)]_vars
    /\ [][nHist' > nHist => cpc = "history"]_vars
    /\ [][cpc # "history" /\ cpc' = "history" => FetchCompletes]_vars
    /\ [](~pr.IsCrossRepository => nHist = 0 /\ cpc # "history")
    /\ [](cpc = "history" \/ nHist > 0 =>
             /\ hqvars.owner = pr.HeadRepository.Owner
             /\ hqvars.name = pr.HeadRepository.Name
             /\ hqvars.oid = HeadRefOID
             /\ <<hqvars.owner, hqvars.name>> # <<BaseOwner, BaseRepo>>)
    /\ [][cpc = "history" => nHist' = nHist + 1]_vars

\* C16, reached: the second attempt of a call on a pull request from a fork
\* has queried two pages of the fork's history
C16_Witness ==
    /\ pr = ForkPR
    /\ nFetch = 2
    /\ nHist = 2
    /\ hqvars = [owner |-> "fork-owner", name |-> BaseRepo, oid |-> HeadRefOID]

(***************************************************************************)
(* Properties of the caches of Commits(), Comments() and Reviews()         *)
(***************************************************************************)
\* C17: the call that follows a successful Commits() returns the same list
\* with no query and no sleep; the call of Comments() or Reviews() that
\* follows a success of either returns its cached list with no combined
\* query; a call that succeeded has set its caches, and no call queries or
\* sleeps once they are set
C17_LaterCallsUseTheCaches ==
    /\ [][cpc = "returned" /\ result = "ok" =>
             /\ cpc' = "returned"
             /\ result' = "ok"
             /\ returned' = returned
             /\ nFetch' = 0 /\ nQuery' = 0 /\ nHist' = 0
             /\ sleeps' = <<>>]_vars
    /\ [][ppc = "returned" /\ presult = "ok" =>
             /\ ppc' = "returned"
             /\ presult' = "ok"
             /\ nPaged' = 0
             /\ commentsCache' = commentsCache
             /\ reviewsCache' = reviewsCache
             /\ preturned' = IF pwho' = "Comments" THEN commentsCache
                             ELSE reviewsCache]_vars
    /\ [](cpc = "returned" /\ result = "ok" =>
             ~commitsCache.isNil /\ returned = commitsCache.items)
    /\ [](ppc = "returned" /\ presult = "ok" =>
             ~commentsCache.isNil /\ ~reviewsCache.isNil)
    /\ [](cpc \in {"raw", "history", "sleep"} => commitsCache.isNil)
    /\ [](ppc = "loop" => commentsCache.isNil /\ reviewsCache.isNil)

\* C17, reached: Reviews() is served from the cache of a pull request that
\* has no comments and no reviews
C17_Witness ==
    /\ ppc = "returned"
    /\ presult = "ok"
    /\ pwho = "Reviews"
    /\ nPaged = 0
    /\ srvPaged = [C |-> 0, R |-> 0]
    /\ preturned = Slice(<<>>)

(***************************************************************************)
(* Properties of NewGitHubContext                                          *)
(***************************************************************************)
\* the locator carries a pull request whose required fields are all set
AllRequiredSet ==
    /\ loc.hasValue
    /\ \A f \in StringFields : loc.Value[f] # ""
    /\ \A f \in IDFields : loc.Value[f] # 0

\* C18: the construction from a locator issues no graph query when the
\* carried pull request has every required field set, and exactly one
\* otherwise; without a query IsCrossRepository is true iff the head and base
\* repository ids differ; and when the one query fails the construction
\* fails and returns no context
C18_ConstructionQueriesOnlyWhenIncomplete ==
    /\ npc = "query" => ~AllRequiredSet /\ nNewQuery = 0
    /\ npc \in {"built", "failed"} =>
           nNewQuery = IF AllRequiredSet THEN 0 ELSE 1
    /\ npc = "built" =>
           /\ ~built.isNil
           /\ <<built.owner, built.repo, built.number>>
                  = <<loc.Owner, loc.Repo, loc.Number>>
    /\ npc = "built" /\ nNewQuery = 0 =>
           /\ built.pr.IsCrossRepository
                  <=> loc.Value.HeadRepoID # loc.Value.BaseRepoID
           /\ built.pr.HeadRefOID = loc.Value.HeadSHA
    /\ npc = "failed" => nNewQuery = 1 /\ built = NoContext

\* C18, reached: a complete pull request of a fork gives a cross-repository
\* context without a query
C18_Witness ==
    /\ npc = "built"
    /\ nNewQuery = 0
    /\ AllRequiredSet
    /\ loc.Value.HeadRepoID = 2
    /\ built.pr.IsCrossRepository

(***************************************************************************)
(* Properties of backfillPushedAt: its frame and its termination          *)
(***************************************************************************)
\* the list backfillPushedAt was called with
InputCommits == ChainCommits(bfInput)

\* C19: while backfillPushedAt runs and when it has returned, the list has
\* the commits it was called with, in their order and with their parents;
\* a PushedAt that was set is unchanged; and a PushedAt that changed is that
\* of a commit the head reaches through first parents in the list
C19_OnlyUnsetTimestampsOnChainChange ==
    bfPc \in {"loop", "done"} =>
        /\ Len(bfCommits) = Len(InputCommits)
        /\ \A i \in DOMAIN InputCommits :
            /\ bfCommits[i].SHA = InputCommits[i].SHA
            /\ bfCommits[i].Parents = InputCommits[i].Parents
            /\ InputCommits[i].PushedAt # NoTime =>
                   bfCommits[i].PushedAt = InputCommits[i].PushedAt
            /\ bfCommits[i].PushedAt # InputCommits[i].PushedAt =>
                   /\ bfCommits[i].SHA \in ChainFrom(InputCommits, HeadRefOID, {})
                   /\ bfCommits[i].SHA # HeadRefOID

\* C19, reached: the head is a merge whose first parent got the head's
\* timestamp and whose second parent, not on the chain, still has none
C19_Witness ==
    /\ bfPc = "done"
    /\ bfInput.n = NumChain
    /\ bfInput.first[HeadRefOID] = 2
    /\ bfInput.second = NumChain
    /\ bfInput.date[2] = NoTime
    /\ Lookup(bfCommits, 2).PushedAt = bfInput.date[HeadRefOID]
    /\ Lookup(bfCommits, 2).PushedAt # NoTime
    /\ Lookup(bfCommits, NumChain).PushedAt = NoTime

\* C20: backfillPushedAt returns for every list and parent relation: no SHA
\* is the current commit of two iterations, the iterations that ran through
\* are fewer than the commits, every iteration takes a commit out of the map,
\* and the loop is left
C20_InferenceTerminates ==
    /\ [](/\ \A i, j \in DOMAIN bfVisited : i # j => bfVisited[i] # bfVisited[j]
          /\ Len(bfVisited) <= bfInput.n
          /\ Len(bfVisited) + Cardinality(bfBySHA) = Len(bfCommits))
    /\ [][bfPc = "loop" /\ bfPc' = "loop" =>
              Cardinality(bfBySHA') < Cardinality(bfBySHA)]_vars
    /\ (bfPc = "loop" ~> bfPc = "done")

\* C20, reached: the first parents of the three commits form a cycle, and
\* the inference has returned after going once around it
C20_Witness ==
    /\ bfPc = "done"
    /\ bfInput.n = NumChain
    /\ bfInput.first[NumChain] = HeadRefOID
    /\ Len(bfVisited) = NumChain - 1
    /\ bfRoot = NumChain
=============================================================================
